---- MODULE Spec2Model ----
(***************************************************************************)
(* Model of Core::Launcher (Wallet/SourceFiles/core/launcher.cpp): the     *)
(* start-up sequence exec() -> init() -> executeApplication(), the working *)
(* path resolution with its writability probe, the argument parser and the *)
(* argument filter.                                                        *)
(*                                                                         *)
(* A path (QString) is a sequence of tokens; "/" is the separator token    *)
(* and every other token is one path component, so that concatenation and  *)
(* endsWith('/') are computed, not assumed.  The empty QString is << >>.   *)
(***************************************************************************)
EXTENDS Integers, Sequences, FiniteSets, TLC

(***************************************************************************)
(* Bounds of the model.                                                    *)
(***************************************************************************)
\* Stand-in for std::numeric_limits<int>::max(), the ceiling of the probe's
\* counter (launcher.cpp:132).
IntMax == 3
\* Longest argument vector enumerated.
MaxArgs == 4

(***************************************************************************)
(* Program constants.                                                      *)
(***************************************************************************)
\* FilteredCommandLineArguments::kForwardArgumentCount
kForwardArgumentCount == 1

VARIABLES
    build,            \* compile-time configuration (the macros tested by #if)
    argv,             \* raw argument vector handed to the process
    argc,             \* its count
    exeInfo,          \* what the platform reports about the executable
    appDataLocation,  \* QStandardPaths::writableLocation(AppDataLocation)
    portableDir,      \* does <executable dir>WalletForcePortable exist
    dataDir,          \* state of the directory <executable dir>data
    dataDir0,         \* dataDir as it was when the process started
    pc,               \* position in exec()
    _arguments,
    _executablePath,
    _executableName,
    _appDataPath,
    _openedUrl,
    _workingPath,
    base,             \* value returned by computeWorkingPathBase()
    index,            \* the probe's counter
    probed,           \* canWorkInExecutablePath() was invoked
    probeResult,      \* its return value
    opened,           \* temp numbers the probe tried to open, in order
    forwarded         \* arguments handed to Sandbox

vars == <<build, argv, argc, exeInfo, appDataLocation, portableDir, dataDir,
          dataDir0, pc, _arguments, _executablePath, _executableName,
          _appDataPath, _openedUrl, _workingPath, base, index, probed,
          probeResult, opened, forwarded>>

(***************************************************************************)
(* Strings and paths.                                                      *)
(***************************************************************************)
Sep == "/"
EmptyString == << >>

endsWith(s, t) == Len(s) > 0 /\ s[Len(s)] = t

isEmpty(s) == Len(s) = 0

\* QDir(path).absolutePath(): an empty path names the current directory; a
\* trailing separator is cleaned away except on the root.
Cwd == <<Sep, "cwd">>
absolutePath(p) ==
    IF isEmpty(p) THEN Cwd
    ELSE IF Len(p) > 1 /\ endsWith(p, Sep) THEN SubSeq(p, 1, Len(p) - 1)
    ELSE p

\* QFileInfo(path).absoluteDir().absolutePath(): the path without its last
\* component.
absoluteDir(p) == absolutePath(SubSeq(p, 1, Len(p) - 1))

\* QFileInfo(path).fileName()
fileName(p) == <<p[Len(p)]>>

\* dir.endsWith('/') ? dir : (dir + '/')
WithSeparator(dir) == IF endsWith(dir, Sep) THEN dir ELSE dir \o <<Sep>>

(***************************************************************************)
(* Inputs: the build, the platform's answers and the filesystem.           *)
(***************************************************************************)
\* The macros computeWorkingPathBase() branches on.  A build targets one
\* operating system; the store macros exist only for their own system.
Builds ==
    { b \in [Q_OS_MAC : BOOLEAN, Q_OS_LINUX : BOOLEAN, Q_OS_WIN : BOOLEAN,
             OS_MAC_STORE : BOOLEAN, OS_WIN_STORE : BOOLEAN, _DEBUG : BOOLEAN] :
        /\ Cardinality({o \in {"mac", "linux", "win"} :
               \/ o = "mac" /\ b.Q_OS_MAC
               \/ o = "linux" /\ b.Q_OS_LINUX
               \/ o = "win" /\ b.Q_OS_WIN}) = 1
        /\ b.OS_MAC_STORE => b.Q_OS_MAC
        /\ b.OS_WIN_STORE => b.Q_OS_WIN }

ExeFile == <<Sep, "opt", Sep, "Wallet">>
RootFile == <<Sep, "Wallet">>
LinkFile == <<Sep, "bin", Sep, "wallet">>

\* What base::Platform::CurrentExecutablePath and QFileInfo report: the path
\* returned, the target when that path is a symbolic link (empty otherwise)
\* and the files that exist.
ExeInfos ==
    { [path |-> EmptyString, symLinkTarget |-> EmptyString, files |-> {}],
      [path |-> ExeFile, symLinkTarget |-> EmptyString, files |-> {ExeFile}],
      [path |-> ExeFile, symLinkTarget |-> EmptyString, files |-> {}],
      [path |-> RootFile, symLinkTarget |-> EmptyString, files |-> {RootFile}],
      [path |-> LinkFile, symLinkTarget |-> ExeFile, files |-> {ExeFile}],
      [path |-> LinkFile, symLinkTarget |-> ExeFile, files |-> {}] }

AppDataLocations == { EmptyString, <<Sep, "home", Sep, "appdata">> }

\* The directory <executable dir>data.  temps[i] is the state of the entry
\* "temp<i>": "none" (no such entry), "writable" (a file that can be opened
\* for writing) or "locked" (an entry that exists and cannot be opened for
\* writing: read-only, in use, or a directory).  writable: new files can be
\* created in the directory.  creatable: mkpath can create it when absent.
TempStates == {"none", "writable", "locked"}
NoTemps == [i \in 1..IntMax |-> "none"]
DataDirs ==
    { [exists |-> FALSE, creatable |-> FALSE, writable |-> FALSE,
       salt |-> FALSE, temps |-> NoTemps] }
    \cup
    { [exists |-> FALSE, creatable |-> TRUE, writable |-> w,
       salt |-> FALSE, temps |-> NoTemps] : w \in BOOLEAN }
    \cup
    { [exists |-> TRUE, creatable |-> FALSE, writable |-> w,
       salt |-> s, temps |-> t] :
         w \in BOOLEAN, s \in BOOLEAN, t \in [1..IntMax -> TempStates] }

\* Raw arguments.  "bytes-not-utf8" stands for an argument that is not valid
\* UTF-8, "" for an empty argument.
RawTokens == {"app", "--", "first", "second", "bytes-not-utf8", ""}
ArgVectors == UNION { [1..n -> RawTokens] : n \in 0..MaxArgs }

\* The empty (null) QString of an argument-valued field.
NoUrl == ""

(***************************************************************************)
(* Pure parts of the launcher.                                             *)
(***************************************************************************)
\* base::FromUtf8Safe: valid UTF-8 decodes to its text; anything else is
\* decoded by the fallback codec instead of aborting.
FromUtf8Safe(raw) == IF raw = "bytes-not-utf8" THEN "fallback-text" ELSE raw

\* Launcher::readArguments
readArguments(n, values) == [i \in 1..n |-> FromUtf8Safe(values[i])]

\* The loop of Launcher::processArguments from position i on.
RECURSIVE scanArguments(_, _, _, _)
scanArguments(args, i, nextUrl, url) ==
    IF i > Len(args) THEN url
    ELSE IF nextUrl THEN scanArguments(args, i + 1, TRUE, args[i])
    ELSE IF args[i] = "--" THEN scanArguments(args, i + 1, TRUE, url)
    ELSE scanArguments(args, i + 1, FALSE, url)

\* The same loop, keeping the first value after "--" instead of the last.
RECURSIVE scanArgumentsFirst(_, _, _, _)
scanArgumentsFirst(args, i, nextUrl, url) ==
    IF i > Len(args) THEN url
    ELSE IF nextUrl THEN args[i]
    ELSE IF args[i] = "--" THEN scanArgumentsFirst(args, i + 1, TRUE, url)
    ELSE scanArgumentsFirst(args, i + 1, FALSE, url)

processArguments_firstWins(args, url) == scanArgumentsFirst(args, 1, FALSE, url)

\* Launcher::processArguments: the value of _openedUrl after the loop.
processArguments(args, url) == scanArguments(args, 1, FALSE, url)

\* std::clamp
clamp_noUpper(v, lo, hi) == IF v < lo THEN lo ELSE v
clamp(v, lo, hi) == IF v < lo THEN lo ELSE IF hi < v THEN hi ELSE v

\* FilteredCommandLineArguments: count() and the first count() values().
FilteredCommandLineArguments(n, values) ==
    [i \in 1..clamp(n, 0, kForwardArgumentCount) |-> values[i]]

\* Launcher::initExecutablePath: the file the path resolves to, following
\* one level of symbolic link.
resolvedInfo(e) ==
    IF ~isEmpty(e.symLinkTarget) THEN e.symLinkTarget ELSE e.path

\* Launcher::initExecutablePath returns early, leaving both fields empty.
resolutionFails(e) == isEmpty(e.path) \/ resolvedInfo(e) \notin e.files

\* Launcher::checkPortablePath
checkPortablePath_noSeparator(exe, exists) ==
    IF exists THEN exe \o <<"WalletForcePortable">> ELSE EmptyString
checkPortablePath(exe, exists) ==
    IF exists THEN (exe \o <<"WalletForcePortable">>) \o <<Sep>>
    ELSE EmptyString

\* computeWorkingPathBase, branch Q_OS_MAC || Q_OS_LINUX
unixBase_debugOnly(b, exe, app) == IF b._DEBUG THEN exe ELSE app
unixBase(b, exe, app) == IF b._DEBUG /\ ~b.OS_MAC_STORE THEN exe ELSE app

\* computeWorkingPathBase, branch OS_WIN_STORE
winStoreBase(b, exe, app) == IF b._DEBUG THEN exe ELSE app

\* computeWorkingPathBase, branch Q_OS_WIN
winBase_swapped(ok, exe, app) == IF ok THEN app ELSE exe
winBase(ok, exe, app) == IF ok THEN exe ELSE app

\* The state of entry temp<i>; names beyond the enumerated ones do not exist.
tempState(d, i) == IF i \in DOMAIN d.temps THEN d.temps[i] ELSE "none"

\* QFileInfo(dataPath + "/salt").exists()
saltExists_never(d) == FALSE
saltExists(d) == d.salt

\* file.open(QIODevice::WriteOnly) on temp<i>: an existing writable file is
\* opened (and truncated), a missing one is created when the directory
\* allows it.
openWriteOnly(d, i) ==
    \/ tempState(d, i) = "writable"
    \/ tempState(d, i) = "none" /\ d.writable

\* file.exists() on temp<i>
fileExists(d, i) == tempState(d, i) # "none"

\* index == std::numeric_limits<int>::max()
atCeiling_never(i) == FALSE
atCeiling(i) == i = IntMax

\* file.remove() on temp<i>
removeFile(d, i) ==
    IF i \in DOMAIN d.temps THEN [d EXCEPT !.temps[i] = "none"] ELSE d

(***************************************************************************)
(* Initial states: the Launcher as constructed, before exec().             *)
(***************************************************************************)
Constructed ==
    /\ argc = Len(argv)
    /\ dataDir0 = dataDir
    /\ pc = "readArguments"
    /\ _arguments = << >>
    /\ _executablePath = EmptyString
    /\ _executableName = EmptyString
    /\ _appDataPath = EmptyString
    /\ _openedUrl = NoUrl
    /\ _workingPath = EmptyString
    /\ base = EmptyString
    /\ index = 0
    /\ probed = FALSE
    /\ probeResult = FALSE
    /\ opened = << >>
    /\ forwarded = << >>

\* Argument handling reads only argc/argv and path resolution never reads
\* them, so the inputs are enumerated along the two axes: every build and
\* filesystem with one argument vector, and every argument vector with one
\* build and filesystem.
InitPaths ==
    /\ build \in Builds
    /\ exeInfo \in ExeInfos
    /\ appDataLocation \in AppDataLocations
    /\ portableDir \in BOOLEAN
    /\ dataDir \in DataDirs
    /\ argv = <<"app", "--", "first">>
    /\ Constructed

InitArguments ==
    /\ build = [Q_OS_MAC |-> FALSE, Q_OS_LINUX |-> FALSE, Q_OS_WIN |-> TRUE,
                OS_MAC_STORE |-> FALSE, OS_WIN_STORE |-> FALSE,
                _DEBUG |-> FALSE]
    /\ exeInfo = [path |-> ExeFile, symLinkTarget |-> EmptyString,
                  files |-> {ExeFile}]
    /\ appDataLocation = <<Sep, "home", Sep, "appdata">>
    /\ portableDir = FALSE
    /\ dataDir = [exists |-> FALSE, creatable |-> TRUE, writable |-> TRUE,
                  salt |-> FALSE, temps |-> NoTemps]
    /\ argv \in ArgVectors
    /\ Constructed

Init == InitPaths \/ InitArguments

(***************************************************************************)
(* exec(): init() step by step, then executeApplication().                 *)
(***************************************************************************)
\* init(): _arguments = readArguments(_argc, _argv), with Expects(argc >= 0).
ReadArguments ==
    /\ pc = "readArguments"
    /\ argc >= 0
    /\ _arguments' = readArguments(argc, argv)
    /\ pc' = "initExecutablePath"
    /\ UNCHANGED <<build, argv, argc, exeInfo, appDataLocation, portableDir,
                   dataDir, dataDir0, _executablePath, _executableName,
                   _appDataPath, _openedUrl, _workingPath, base, index,
                   probed, probeResult, opened, forwarded>>

\* prepareSettings(): initExecutablePath()
InitExecutablePath ==
    /\ pc = "initExecutablePath"
    /\ IF resolutionFails(exeInfo)
       THEN UNCHANGED <<_executablePath, _executableName>>
       ELSE /\ _executablePath' =
                   WithSeparator(absoluteDir(resolvedInfo(exeInfo)))
            /\ _executableName' = fileName(resolvedInfo(exeInfo))
    /\ pc' = "initAppDataPath"
    /\ UNCHANGED <<build, argv, argc, exeInfo, appDataLocation, portableDir,
                   dataDir, dataDir0, _arguments, _appDataPath, _openedUrl,
                   _workingPath, base, index, probed, probeResult, opened,
                   forwarded>>

\* prepareSettings(): initAppDataPath()
InitAppDataPath ==
    /\ pc = "initAppDataPath"
    /\ _appDataPath' = WithSeparator(absolutePath(appDataLocation))
    /\ pc' = "processArguments"
    /\ UNCHANGED <<build, argv, argc, exeInfo, appDataLocation, portableDir,
                   dataDir, dataDir0, _arguments, _executablePath,
                   _executableName, _openedUrl, _workingPath, base, index,
                   probed, probeResult, opened, forwarded>>

\* prepareSettings(): processArguments()
ProcessArguments ==
    /\ pc = "processArguments"
    /\ _openedUrl' = processArguments(_arguments, _openedUrl)
    /\ pc' = "initWorkingPath"
    /\ UNCHANGED <<build, argv, argc, exeInfo, appDataLocation, portableDir,
                   dataDir, dataDir0, _arguments, _executablePath,
                   _executableName, _appDataPath, _workingPath, base, index,
                   probed, probeResult, opened, forwarded>>

\* initWorkingPath() with the value computeWorkingPathBase() returned.
returnBase(path) ==
    /\ base' = path
    /\ _workingPath' = path \o <<"data", Sep>>
    /\ pc' = "executeApplication"

\* initWorkingPath() and computeWorkingPathBase() up to its return or, on a
\* conventional Windows build, up to the call of canWorkInExecutablePath().
InitWorkingPath ==
    /\ pc = "initWorkingPath"
    /\ LET path == checkPortablePath(_executablePath, portableDir) IN
         IF ~isEmpty(path) THEN returnBase(path)
         ELSE IF build.Q_OS_MAC \/ build.Q_OS_LINUX
           THEN returnBase(unixBase(build, _executablePath, _appDataPath))
         ELSE IF build.OS_WIN_STORE
           THEN returnBase(winStoreBase(build, _executablePath, _appDataPath))
         ELSE /\ build.Q_OS_WIN
              /\ pc' = "canWorkInExecutablePath"
              /\ UNCHANGED <<base, _workingPath>>
    /\ UNCHANGED <<build, argv, argc, exeInfo, appDataLocation, portableDir,
                   dataDir, dataDir0, _arguments, _executablePath,
                   _executableName, _appDataPath, _openedUrl, index, probed,
                   probeResult, opened, forwarded>>

\* canWorkInExecutablePath() up to its loop: the directory is created when
\* absent, and an existing salt file answers at once.
CanWorkInExecutablePath ==
    /\ pc = "canWorkInExecutablePath"
    /\ probed' = TRUE
    /\ IF ~dataDir.exists /\ ~dataDir.creatable
       THEN /\ probeResult' = FALSE
            /\ pc' = "probeReturn"
            /\ UNCHANGED <<dataDir, index>>
       ELSE /\ dataDir' = [dataDir EXCEPT !.exists = TRUE]
            /\ IF saltExists(dataDir')
               THEN /\ probeResult' = TRUE
                    /\ pc' = "probeReturn"
                    /\ UNCHANGED index
               ELSE /\ index' = 0
                    /\ pc' = "probeLoop"
                    /\ UNCHANGED probeResult
    /\ UNCHANGED <<build, argv, argc, exeInfo, appDataLocation, portableDir,
                   dataDir0, _arguments, _executablePath, _executableName,
                   _appDataPath, _openedUrl, _workingPath, base, opened,
                   forwarded>>

\* One iteration of the loop of canWorkInExecutablePath().
ProbeLoop ==
    /\ pc = "probeLoop"
    /\ index' = index + 1
    /\ opened' = Append(opened, index')
    /\ IF openWriteOnly(dataDir, index')
       THEN /\ dataDir' = removeFile(dataDir, index')
            /\ probeResult' = TRUE
            /\ pc' = "probeReturn"
       ELSE IF ~fileExists(dataDir, index')
       THEN /\ probeResult' = FALSE
            /\ pc' = "probeReturn"
            /\ UNCHANGED dataDir
       ELSE IF atCeiling(index')
       THEN /\ probeResult' = FALSE
            /\ pc' = "probeReturn"
            /\ UNCHANGED dataDir
       ELSE /\ pc' = "probeLoop"
            /\ UNCHANGED <<dataDir, probeResult>>
    /\ UNCHANGED <<build, argv, argc, exeInfo, appDataLocation, portableDir,
                   dataDir0, _arguments, _executablePath, _executableName,
                   _appDataPath, _openedUrl, _workingPath, base, probed,
                   forwarded>>

\* computeWorkingPathBase() after canWorkInExecutablePath() returned.
ProbeReturn ==
    /\ pc = "probeReturn"
    /\ returnBase(winBase(probeResult, _executablePath, _appDataPath))
    /\ UNCHANGED <<build, argv, argc, exeInfo, appDataLocation, portableDir,
                   dataDir, dataDir0, _arguments, _executablePath,
                   _executableName, _appDataPath, _openedUrl, index, probed,
                   probeResult, opened, forwarded>>

\* executeApplication(): the filtered arguments go to Sandbox.
ExecuteApplication ==
    /\ pc = "executeApplication"
    /\ forwarded' = FilteredCommandLineArguments(argc, argv)
    /\ pc' = "done"
    /\ UNCHANGED <<build, argv, argc, exeInfo, appDataLocation, portableDir,
                   dataDir, dataDir0, _arguments, _executablePath,
                   _executableName, _appDataPath, _openedUrl, _workingPath,
                   base, index, probed, probeResult, opened>>

Next ==
    \/ ReadArguments
    \/ InitExecutablePath
    \/ InitAppDataPath
    \/ ProcessArguments
    \/ InitWorkingPath
    \/ CanWorkInExecutablePath
    \/ ProbeLoop
    \/ ProbeReturn
    \/ ExecuteApplication

Spec == Init /\ [][Next]_vars

\* exec() runs on one thread and every step returns, so a step that can be
\* taken is taken.
FairSpec == Spec /\ WF_vars(Next)

(***************************************************************************)
(* Properties.                                                             *)
(***************************************************************************)
\* computeWorkingPathBase() has returned and initWorkingPath() has stored
\* the working path.
BaseReturned == pc \in {"executeApplication", "done"}

\* canWorkInExecutablePath() was called and has returned.
ProbeReturned ==
    probed /\ pc \in {"probeReturn", "executeApplication", "done"}

Unix == build.Q_OS_MAC \/ build.Q_OS_LINUX
WinConventional == build.Q_OS_WIN /\ ~build.OS_WIN_STORE
WinStore == build.Q_OS_WIN /\ build.OS_WIN_STORE

MarkerPath == _executablePath \o <<"WalletForcePortable">>

\* C1: if the directory <executable dir>WalletForcePortable exists, then on
\* every build and for every state of <executable dir>data the base returned
\* is that marker path followed by exactly one separator, and the
\* writability probe was never invoked.
C1_PortableOverrides ==
    (portableDir /\ BaseReturned) =>
        /\ base = MarkerPath \o <<Sep>>
        /\ Len(base) = Len(MarkerPath) + 1
        /\ ~endsWith(MarkerPath, Sep)
        /\ ~probed
        /\ opened = << >>
        /\ dataDir = dataDir0

\* A portable start on a conventional Windows build, the one build that
\* would otherwise probe, with a data directory that cannot be created.
C1_Witness ==
    /\ portableDir /\ BaseReturned /\ WinConventional
    /\ ~dataDir0.exists /\ ~dataDir0.creatable
    /\ base = <<Sep, "opt", Sep, "WalletForcePortable", Sep>>

\* C2 as claimed: on a non-portable start on macOS or Linux, store variant
\* included, a debug build returns the executable directory and a release
\* build the app-data directory.
C2_AsClaimed ==
    (BaseReturned /\ ~portableDir /\ Unix) =>
        base = IF build._DEBUG THEN _executablePath ELSE _appDataPath

\* C2 as amended: on a non-portable start on macOS or Linux, a debug build of
\* the conventional distribution returns the executable directory; a release
\* build, and the Mac store variant in debug and release alike, returns the
\* app-data directory.
C2_UnixBase ==
    (BaseReturned /\ ~portableDir /\ Unix) =>
        /\ (build._DEBUG /\ ~build.OS_MAC_STORE) => base = _executablePath
        /\ ~build._DEBUG => base = _appDataPath
        /\ build.OS_MAC_STORE => base = _appDataPath
        /\ ~probed

\* A debug build of the Mac store variant whose executable was resolved.
C2_Witness ==
    /\ BaseReturned /\ ~portableDir
    /\ build.Q_OS_MAC /\ build.OS_MAC_STORE /\ build._DEBUG
    /\ _executablePath = <<Sep, "opt", Sep>>
    /\ base = _appDataPath

\* C3: on a non-portable start on conventional Windows, debug or release,
\* the base is the executable directory exactly when the probe returned true
\* and the app-data directory otherwise; on the Windows store variant the
\* probe is not invoked and the base is the executable directory in debug
\* and the app-data directory in release.
C3_WindowsBase ==
    (BaseReturned /\ ~portableDir /\ build.Q_OS_WIN) =>
        IF build.OS_WIN_STORE
        THEN /\ ~probed
             /\ opened = << >>
             /\ build._DEBUG => base = _executablePath
             /\ ~build._DEBUG => base = _appDataPath
        ELSE /\ probed
             /\ (base = _executablePath) <=> probeResult
             /\ ~probeResult => base = _appDataPath

\* A debug build of conventional Windows whose probe failed.
C3_Witness ==
    /\ BaseReturned /\ ~portableDir /\ WinConventional /\ build._DEBUG
    /\ probed /\ ~probeResult
    /\ base = _appDataPath

\* C4: once init() has completed, the working path is the base followed by
\* "data/", and the base itself ends with a separator, also when the
\* executable path could not be resolved.
C4_WorkingPathShape ==
    BaseReturned =>
        /\ _workingPath = base \o <<"data", Sep>>
        /\ endsWith(base, Sep)

\* C5: when executable-path resolution fails, the executable path and name
\* stay empty and the base chosen is the app-data directory, on every build
\* (stated for starts without a portable marker, which overrides the base).
C5_ResolutionFailure ==
    (resolutionFails(exeInfo) /\ ~portableDir /\ BaseReturned) =>
        /\ _executablePath = EmptyString
        /\ _executableName = EmptyString
        /\ base = _appDataPath

\* C6: a call of the probe leaves the entries of the probed directory as
\* they were; only the directory itself may have been created.
C6_ProbeLeavesFiles ==
    ProbeReturned =>
        /\ dataDir.temps = dataDir0.temps
        /\ dataDir.salt = dataDir0.salt

\* C7: whenever salt exists in the probed directory, the probe returns true
\* without opening, creating or deleting any temp file and without touching
\* salt.
C7_SaltFastPath ==
    /\ (pc = "probeLoop") => ~dataDir0.salt
    /\ (ProbeReturned /\ dataDir0.salt) =>
        /\ probeResult
        /\ opened = << >>
        /\ index = 0
        /\ dataDir = dataDir0

\* The probe returned on a directory that holds salt, cannot take new files
\* and whose temp1 is a writable file the loop would have opened.
C7_Witness ==
    /\ ProbeReturned /\ dataDir0.salt /\ probeResult
    /\ ~dataDir0.writable
    /\ dataDir0.temps[1] = "writable"

\* Creation of temp<k> fails although the name exists, in the directory as
\* the probe found it.
Collides(k) == dataDir0.temps[k] = "locked"

\* Creation of temp<k> succeeds in the directory as the probe found it.
Creates(k) ==
    \/ dataDir0.temps[k] = "writable"
    \/ dataDir0.temps[k] = "none" /\ dataDir0.writable

\* The safety half of C8: the names tried are temp1, temp2, ... in order, at
\* most IntMax of them; every name but the last one tried collided; the
\* result is true exactly when the last name tried could be created, and the
\* loop gave up on a colliding name only at the ceiling.
C8_Attempts ==
    /\ index <= IntMax
    /\ Len(opened) = index
    /\ \A k \in 1..Len(opened) : opened[k] = k
    /\ \A k \in 1..(Len(opened) - 1) : Collides(k)
    /\ (pc = "probeLoop") =>
          /\ index < IntMax
          /\ \A k \in 1..Len(opened) : Collides(k)
    /\ (ProbeReturned /\ opened # << >>) =>
          /\ probeResult <=> Creates(index)
          /\ Collides(index) => index = IntMax

\* C8: the retry loop of the probe terminates for every directory state: a
\* call of the probe always returns, after trying temp1, temp2, ... in
\* increasing order, moving on only from a name that exists and cannot be
\* created, at most IntMax times.
C8_ProbeTerminates ==
    /\ []C8_Attempts
    /\ (pc = "canWorkInExecutablePath") ~> (pc = "probeReturn")

\* The probe gave up at the ceiling: every name up to temp<IntMax> collided.
C8_Witness ==
    /\ pc = "probeReturn" /\ ~probeResult
    /\ index = IntMax
    /\ \A k \in 1..IntMax : Collides(k)

\* processArguments() has run.
ArgumentsProcessed ==
    pc \in {"initWorkingPath", "canWorkInExecutablePath", "probeLoop",
            "probeReturn", "executeApplication", "done"}

\* Positions of the literal "--" in the decoded argument list.
Dashes == { i \in 1..Len(_arguments) : _arguments[i] = "--" }
FirstDash == CHOOSE i \in Dashes : \A j \in Dashes : i <= j

\* C9: after processArguments() the opened url is the last argument when the
\* first "--" is followed by at least one argument (a later "--" being an
\* ordinary value), and it is unset when there is no "--" or the first "--"
\* is the last argument; what precedes the first "--" plays no part.
C9_OpenedUrl ==
    ArgumentsProcessed =>
        IF Dashes # {} /\ FirstDash < Len(_arguments)
        THEN _openedUrl = _arguments[Len(_arguments)]
        ELSE _openedUrl = NoUrl

\* The last of two values after "--" wins.
C9_Witness ==
    /\ pc = "done"
    /\ _arguments = <<"app", "--", "first", "second">>
    /\ _openedUrl = "second"

Min(a, b) == IF a < b THEN a ELSE b
Max(a, b) == IF a < b THEN b ELSE a

\* C10: the list forwarded to the runtime has length min(max(argc, 0), 1)
\* and is the prefix of argv from index 0: empty without arguments, else
\* the first argument alone; the opened url is still read from the whole
\* list.
C10_ForwardedArguments ==
    (pc = "done") =>
        /\ Len(forwarded) = Min(Max(argc, 0), 1)
        /\ \A i \in 1..Len(forwarded) : forwarded[i] = argv[i]
        /\ argc = 0 => forwarded = << >>
        /\ argc >= 1 => forwarded = <<argv[1]>>
        /\ Len(_arguments) = argc
        /\ (\E i \in 1..(argc - 1) : argv[i] = "--") =>
               _openedUrl = FromUtf8Safe(argv[argc])

\* Four arguments with the url last: one is forwarded, the url is still read.
C10_Witness ==
    /\ pc = "done"
    /\ argv = <<"app", "first", "--", "second">>
    /\ forwarded = <<"app">>
    /\ _openedUrl = "second"

====
